---- MODULE Spec2Model ----
(***************************************************************************)
(* A model of mhlib's population container (mhlib/population.py) and of    *)
(* the steady-state genetic algorithm built on it (mhlib/ssga.py).         *)
(*                                                                         *)
(* Solutions are objects: `heap` maps an object identity to the            *)
(* representation the object currently holds, `population` is the list of  *)
(* object identities held by the Population, `incumbent` is the identity   *)
(* the scheduler's attribute refers to.  List indices are Python's         *)
(* (0-based): index i of a Python list P is P[i + 1] here.                 *)
(*                                                                         *)
(* Two further parts stand by themselves: the global settings and the      *)
(* seeding of the random generators (mhlib/settings.py, SpecSettings), and *)
(* the solution class of the TSP demo (mhlib/demos/tsp.py, SpecTSP).       *)
(***************************************************************************)
EXTENDS Integers, Sequences, FiniteSets, TLC

\* ------------------------------------------------------------------ bounds
MaxPopSize == 3      \* mh_pop_size ranges over 1..MaxPopSize
MaxRep == 2          \* representations are 0..MaxRep
MaxTiter == 3        \* the largest mh_titer; cap of `iteration` when unlimited
MaxRejected == 2     \* cap of consecutive duplicate rejections in Spec
MaxRetry == 200      \* cap of consecutive duplicate rejections in SpecPopulation
MaxTournament == 10  \* mh_tournament_size ranges over 1..MaxTournament in SpecSelection

Reps == 0..MaxRep
\* Object identities; 0 stands for "no object" (None, or not yet assigned).
Objects == 1..(MaxPopSize + 2)

VARIABLES
    own_settings,   \* the settings record (mh_pop_size, mh_dupelim, ...)
    meth_ls,        \* SSGA: TRUE iff a local improvement method is configured
    pc,             \* position of the program
    population,     \* Population (a list): the identities of its members
    heap,           \* live identity -> representation the object holds
    sol,            \* Population.__init__: representation of local `sol`
    meths_cycle,    \* Population.__init__: index next(meths_cycle) yields next
    res_terminate,  \* res.terminate of the last Result made
    rejected,       \* Population.__init__: consecutive `continue`s taken
    incumbent,      \* SSGA: identity self.incumbent refers to
    iteration,      \* Scheduler: self.iteration
    p1,             \* run(): identity of the working copy p1
    methods,        \* run(): names of the methods still to be performed
    sel_pc,         \* Population.selection followed step by step: position
    sel_best,       \* Population.selection: local `best`
    sel_i,          \* Population.selection: passes of the loop made
    sel_sampled,    \* Population.selection: the indices drawn so far
    settings,       \* settings.py: the global Namespace, option -> value
    np_seed,        \* settings.py: the seed numpy's generator was given last
    py_seed,        \* settings.py: the seed random's generator was given last
    file,           \* settings.py: the content of the settings file
    at_save,        \* history: the option values when the file was written
    set_pc,         \* settings.py: the function that returned last
    inst,           \* tsp.py: the TSPInstance (n, distances)
    self,           \* tsp.py: a TSPSolution (x, obj_val, obj_val_valid)
    other,          \* tsp.py: a second TSPSolution (a copy, the other parent)
    result,         \* tsp.py: the Result handed to the method performed last
    proposed        \* tsp.py: (move, delta_f) returned by the last proposal

selvars == <<sel_pc, sel_best, sel_i, sel_sampled>>

setvars == <<settings, np_seed, py_seed, file, at_save, set_pc>>

tspvars == <<inst, self, other, result, proposed>>

vars == <<own_settings, meth_ls, pc, population, heap, sol, meths_cycle,
          res_terminate, rejected, incumbent, iteration, p1, methods, selvars,
          setvars, tspvars>>

\* ------------------------------------------------------- Solution contract
\* The problem is a minimisation problem (TSPSolution.to_maximize = False).
to_maximize == FALSE

\* Solution.obj: the objective of the solution holding representation x.
\* Two representations share each objective value, so that an equal
\* objective does not imply an equal representation.
obj(x) == x \div 2

is_better(a, b) == IF to_maximize THEN obj(a) > obj(b) ELSE obj(a) < obj(b)

is_worse(a, b) == IF to_maximize THEN obj(a) < obj(b) ELSE obj(a) > obj(b)

\* `individual == solution`: structural equality of the representations
is_equal(a, b) == a = b

\* ---------------------------------------------------------- Population
\* The list of solutions (representations) a list of identities denotes.
Values(pop, h) == [i \in 1..Len(pop) |-> h[pop[i]]]

\* best_loop with a tie resolved in favour of the later index.
RECURSIVE best_loop_last_tie(_, _, _)
best_loop_last_tie(P, i, b) ==
    IF i >= Len(P) THEN b
    ELSE best_loop_last_tie(P, i + 1,
            IF ~is_worse(P[i + 1], P[b + 1]) THEN i ELSE b)

RECURSIVE best_loop(_, _, _)
best_loop(P, i, b) ==
    IF i >= Len(P) THEN b
    ELSE best_loop(P, i + 1, IF is_better(P[i + 1], P[b + 1]) THEN i ELSE b)

\* best() with `best` never moved off index 0.
best_index_0(P) == 0

\* Population.best: index of the best individual
best(P) == best_loop(P, 0, 0)

RECURSIVE worst_loop(_, _, _)
worst_loop(P, i, w) ==
    IF i >= Len(P) THEN w
    ELSE worst_loop(P, i + 1, IF is_worse(P[i + 1], P[w + 1]) THEN i ELSE w)

\* Population.worst: index of the worst individual
worst(P) == worst_loop(P, 0, 0)

RECURSIVE duplicates_loop(_, _, _, _)
duplicates_loop(P, solution, idx, duplicates) ==
    IF idx >= Len(P) THEN duplicates
    ELSE duplicates_loop(P, solution, idx + 1,
            IF is_equal(P[idx + 1], solution)
            THEN Append(duplicates, idx) ELSE duplicates)

\* duplicates_of with the scan started one index late.
duplicates_of_from_1(P, solution) == duplicates_loop(P, solution, 1, <<>>)

\* Population.duplicates_of: the list of indices of duplicates of `solution`
duplicates_of(P, solution) == duplicates_loop(P, solution, 0, <<>>)

\* selection_draws with the draw started at index 0.
selection_draws_from_0(P) == 0..(Len(P) - 1)

\* The values random.randint(1, len(self) - 1) can return (both ends
\* included); empty when the population has fewer than two members, in which
\* case random.randint raises ValueError.
selection_draws(P) == 1..(Len(P) - 1)

\* selection_step with the comparison turned around.
selection_step_worse(P, b, individual) ==
    IF is_worse(P[individual + 1], P[b + 1]) THEN individual ELSE b

\* One pass of the tournament loop: `individual` replaces `best` if better.
selection_step(P, b, individual) ==
    IF is_better(P[individual + 1], P[b + 1]) THEN individual ELSE b

\* The values `best` can hold after n passes of the loop `for i in range(k-1)`.
RECURSIVE selection_after(_, _)
selection_after(P, n) ==
    IF n <= 0 THEN selection_draws(P)
    ELSE {selection_step(P, b, individual) :
            b \in selection_after(P, n - 1), individual \in selection_draws(P)}

\* Population.selection: the indices a tournament of size k can return.
selection(P, k) == selection_after(P, k - 1)

\* ------------------------------------------------------------ settings
\* random.random() < prob, in percent: the draws are 0 and 99 of [0, 100).
RandomDraws == {0, 99}
Probabilities == {0, 100}

Settings ==
    [mh_pop_size : 1..MaxPopSize,
     mh_tournament_size : {1, 2},
     mh_dupelim : BOOLEAN,
     mh_titer : {0 - 1, 0, MaxTiter},
     mh_ssga_cross_prob : Probabilities,
     mh_ssga_loc_prob : {50}]

NumMeths == 2   \* len(meths_ch)

\* ------------------------------------------------------------- objects
\* A new object gets the least identity no live object has.
NewObject(h) ==
    CHOOSE o \in Objects :
        /\ o \notin DOMAIN h
        /\ \A q \in Objects : q < o => q \in DOMAIN h

\* The heap after object o is created with, or overwritten by copy_from
\* with, representation x.
Store(h, o, x) == [q \in DOMAIN h \cup {o} |-> IF q = o THEN x ELSE h[q]]

\* The heap once every object outside `live` is unreachable.
Collect(h, live) == [q \in DOMAIN h \cap live |-> h[q]]

Range(f) == {f[i] : i \in DOMAIN f}

\* The settings module and the TSP demo take no part in the run of the
\* genetic algorithm: their variables rest at the values below.
SettingsUnused ==
    /\ settings = <<>>
    /\ np_seed = "unseeded"
    /\ py_seed = "unseeded"
    /\ file = <<>>
    /\ at_save = <<>>
    /\ set_pc = "unused"

TSPUnused ==
    /\ inst = <<>>
    /\ self = <<>>
    /\ other = <<>>
    /\ result = <<>>
    /\ proposed = <<>>

\* ------------------------------------------------------------- program
\* The state when SteadyStateGeneticAlgorithm.__init__ enters
\* Population.__init__: an empty list, `sol` the prototype solution.
Init ==
    /\ own_settings \in Settings
    /\ meth_ls \in BOOLEAN
    /\ pc = "Population"
    /\ population = <<>>
    /\ heap = [o \in {} |-> 0]
    /\ sol \in Reps
    /\ meths_cycle = 0
    /\ res_terminate = FALSE
    /\ rejected = 0
    /\ incumbent = 0
    /\ iteration = 0
    /\ p1 = 0
    /\ methods = <<>>
    /\ sel_pc = "idle"
    /\ sel_best = 0
    /\ sel_i = 0
    /\ sel_sampled = {}
    /\ SettingsUnused
    /\ TSPUnused

\* Population_more with the loop condition off by one.
Population_more_off_by_one(pop_, term) ==
    /\ ~term
    /\ Len(pop_) <= own_settings.mh_pop_size

\* Whether Population.__init__ makes another pass after appending: not
\* after `break` on res.terminate, and only while the `while` condition holds.
Population_more(pop_, term) ==
    /\ ~term
    /\ Len(pop_) < own_settings.mh_pop_size

\* Whether the candidate is skipped as a duplicate (population.py:41).
Population_rejects(P, candidate) ==
    own_settings.mh_dupelim /\ duplicates_of(P, candidate) # <<>>

\* One pass of the loop of Population.__init__: the next construction method
\* is applied to a copy of `sol`; x is the representation it leaves, t the
\* res.terminate it leaves.  cap bounds the count of consecutive rejections.
Population_init(cap) ==
    /\ pc = "Population"
    /\ rejected < cap
    /\ \E x \in Reps, t \in BOOLEAN :
        /\ sol' = x
        /\ res_terminate' = t
        /\ IF Population_rejects(Values(population, heap), x)
           THEN /\ rejected' = rejected + 1
                /\ meths_cycle' = (meths_cycle + 1) % NumMeths
                /\ UNCHANGED <<population, heap, pc>>
           ELSE /\ rejected' = 0
                /\ population' = Append(population, NewObject(heap))
                /\ heap' = Store(heap, NewObject(heap), x)
                /\ IF Population_more(population', t)
                   THEN /\ pc' = "Population"
                        /\ meths_cycle' = (meths_cycle + 1) % NumMeths
                   ELSE /\ pc' = "populated"
                        /\ meths_cycle' = 0
    /\ UNCHANGED <<own_settings, meth_ls, incumbent, iteration, p1, methods>>
    /\ UNCHANGED <<selvars, setvars, tspvars>>

\* The rest of SteadyStateGeneticAlgorithm.__init__: the scheduler's fields
\* are set and the incumbent is bound to the population's best member.
SSGA_init ==
    /\ pc = "populated"
    /\ incumbent' = population[best(Values(population, heap)) + 1]
    /\ iteration' = 0
    /\ pc' = "run"
    /\ UNCHANGED <<own_settings, meth_ls, population, heap, sol, meths_cycle,
                   res_terminate, rejected, p1, methods>>
    /\ UNCHANGED <<selvars, setvars, tspvars>>

\* Scheduler termination predicate on the iteration budget.
check_termination(it) ==
    own_settings.mh_titer >= 0 /\ it >= own_settings.mh_titer

\* The list without the mutation: an iteration may perform no method at all.
iteration_methods_no_mutation(cross, loc) ==
    (IF cross THEN <<"cx">> ELSE <<>>) \o (IF loc THEN <<"ls">> ELSE <<>>)

\* run(), lines 70-90: the methods of one iteration, in the order they are
\* handed to perform_methods: the crossover if drawn, the mutation always,
\* the local improvement if drawn.
iteration_methods(cross, loc) ==
    (IF cross THEN <<"cx">> ELSE <<>>)
    \o <<"mu">>
    \o (IF loc THEN <<"ls">> ELSE <<>>)

\* run(), lines 66-90: the parent is selected and copied into p1, and the
\* list of methods of this iteration is built.  population.select() is read
\* as Population.selection, the tournament selection the class defines (it
\* defines no attribute named select).  A population of one member makes
\* random.randint(1, 0) raise ValueError.  The second selection and the copy
\* p2 feed only the crossover callable, whose outcome is left open in
\* perform_method.
run_select ==
    /\ pc = "run"
    /\ LET P == Values(population, heap)
           k == own_settings.mh_tournament_size
       IN  IF selection_draws(P) = {}
           THEN /\ pc' = "ValueError"
                /\ UNCHANGED <<heap, p1, methods, res_terminate>>
           ELSE \E i1 \in selection(P, k), r1 \in RandomDraws, r2 \in RandomDraws :
                  LET cross == r1 < own_settings.mh_ssga_cross_prob
                      loc == meth_ls /\ r2 < own_settings.mh_ssga_loc_prob
                  IN  /\ \E i2 \in selection(P, k) : TRUE
                      /\ p1' = NewObject(heap)
                      /\ heap' = Store(heap, p1', P[i1 + 1])
                      /\ methods' = iteration_methods(cross, loc)
                      /\ res_terminate' = FALSE
                      /\ pc' = "perform"
    /\ UNCHANGED <<own_settings, meth_ls, population, sol, meths_cycle,
                   rejected, incumbent, iteration>>
    /\ UNCHANGED <<selvars, setvars, tspvars>>

\* Scheduler.perform_methods, one method of the list: unless the run has
\* terminated already, the callable is applied to p1 (x is the representation
\* it leaves, t the res.terminate it sets), the iteration is counted, a
\* strictly better p1 is copied into the incumbent, and the termination
\* predicates are checked.
perform_method ==
    /\ pc = "perform"
    /\ methods # <<>>
    /\ ~res_terminate
    /\ IF check_termination(iteration)
       THEN /\ res_terminate' = TRUE
            /\ UNCHANGED <<heap, iteration, methods>>
       ELSE /\ iteration < MaxTiter
            /\ \E x \in Reps, t \in BOOLEAN :
                LET h1 == Store(heap, p1, x)
                IN  /\ heap' = IF is_better(x, h1[incumbent])
                               THEN Store(h1, incumbent, x) ELSE h1
                    /\ iteration' = iteration + 1
                    /\ res_terminate' = (t \/ check_termination(iteration'))
                    /\ methods' = Tail(methods)
    /\ UNCHANGED <<own_settings, meth_ls, pc, population, sol, meths_cycle,
                   rejected, incumbent, p1>>
    /\ UNCHANGED <<selvars, setvars, tspvars>>

\* run(), lines 94-103: on terminate the loop is left; otherwise p1 is copied
\* into the worst member and becomes the incumbent if it is better.
run_replace ==
    /\ pc = "perform"
    /\ methods = <<>> \/ res_terminate
    /\ IF res_terminate
       THEN /\ pc' = "returned"
            /\ heap' = Collect(heap, Range(population) \cup {incumbent})
            /\ UNCHANGED incumbent
       ELSE LET w == worst(Values(population, heap))
                h1 == Store(heap, population[w + 1], heap[p1])
            IN  /\ incumbent' = IF is_better(h1[p1], h1[incumbent])
                                 THEN p1 ELSE incumbent
                /\ heap' = Collect(h1, Range(population) \cup {incumbent'})
                /\ pc' = "run"
    /\ p1' = 0
    /\ methods' = <<>>
    /\ UNCHANGED <<own_settings, meth_ls, population, sol, meths_cycle,
                   res_terminate, rejected, iteration>>
    /\ UNCHANGED <<selvars, setvars, tspvars>>

Next ==
    \/ Population_init(MaxRejected)
    \/ SSGA_init
    \/ run_select
    \/ perform_method
    \/ run_replace

Spec == Init /\ [][Next]_vars

\* Population.__init__ alone, followed for up to MaxRetry consecutive
\* rejections; the settings it does not read are fixed.
InitPopulation ==
    /\ Init
    /\ own_settings.mh_tournament_size = 1
    /\ own_settings.mh_titer = 0
    /\ own_settings.mh_ssga_cross_prob = 0
    /\ ~meth_ls

NextPopulation == Population_init(MaxRetry)

SpecPopulation == InitPopulation /\ [][NextPopulation]_vars

\* ------------------------------------------- Population.selection, stepwise
\* The population of the tournament scenario: ten members with objectives
\* 5, 1, 9, 2, 7, 3, 8, 4, 6, 10 (minimised), mh_tournament_size = 10.
ScenarioObjectives == <<5, 1, 9, 2, 7, 3, 8, 4, 6, 10>>
ScenarioPopulation == [i \in 1..Len(ScenarioObjectives) |-> 2 * ScenarioObjectives[i]]

\* The populations selection() is followed on: the scenario's, and every
\* population of 1..MaxPopSize members over Reps.
SelectionPopulations ==
    {ScenarioPopulation} \cup UNION {[1..n -> Reps] : n \in 1..MaxPopSize}

InitSelection ==
    /\ \E P \in SelectionPopulations :
        /\ population = [i \in 1..Len(P) |-> i]
        /\ heap = [o \in 1..Len(P) |-> P[o]]
        /\ own_settings \in [mh_pop_size : {Len(P)},
                              mh_tournament_size : 1..MaxTournament,
                              mh_dupelim : {FALSE},
                              mh_titer : {0},
                              mh_ssga_cross_prob : {0},
                              mh_ssga_loc_prob : {50}]
    /\ meth_ls = FALSE
    /\ pc = "selection"
    /\ sol = 0
    /\ meths_cycle = 0
    /\ res_terminate = FALSE
    /\ rejected = 0
    /\ incumbent = 0
    /\ iteration = 0
    /\ p1 = 0
    /\ methods = <<>>
    /\ sel_pc = "call"
    /\ sel_best = 0
    /\ sel_i = 0
    /\ sel_sampled = {}
    /\ SettingsUnused
    /\ TSPUnused

gavars == <<own_settings, meth_ls, pc, population, heap, sol, meths_cycle,
            res_terminate, rejected, incumbent, iteration, p1, methods>>

\* selection(), line 75: the first draw; random.randint raises ValueError
\* when its range is empty.
selection_first ==
    /\ sel_pc = "call"
    /\ LET P == Values(population, heap)
       IN  IF selection_draws(P) = {}
           THEN /\ sel_pc' = "ValueError"
                /\ UNCHANGED <<sel_best, sel_i, sel_sampled>>
           ELSE \E b \in selection_draws(P) :
                  /\ sel_best' = b
                  /\ sel_sampled' = {b}
                  /\ sel_i' = 0
                  /\ sel_pc' = "loop"
    /\ UNCHANGED gavars
    /\ UNCHANGED <<setvars, tspvars>>

\* selection(), lines 77-80: one pass of `for i in range(k - 1)`.
selection_pass ==
    /\ sel_pc = "loop"
    /\ sel_i < own_settings.mh_tournament_size - 1
    /\ LET P == Values(population, heap)
       IN  \E individual \in selection_draws(P) :
              /\ sel_best' = selection_step(P, sel_best, individual)
              /\ sel_sampled' = sel_sampled \cup {individual}
    /\ sel_i' = sel_i + 1
    /\ UNCHANGED <<sel_pc, gavars>>
    /\ UNCHANGED <<setvars, tspvars>>

\* selection(), line 82: `return best` once the loop is exhausted.
selection_return ==
    /\ sel_pc = "loop"
    /\ sel_i >= own_settings.mh_tournament_size - 1
    /\ sel_pc' = "returned"
    /\ UNCHANGED <<sel_best, sel_i, sel_sampled, gavars>>
    /\ UNCHANGED <<setvars, tspvars>>

NextSelection ==
    \/ selection_first
    \/ selection_pass
    \/ selection_return

SpecSelection == InitSelection /\ [][NextSelection]_vars

\* --------------------------------------------------------------- claims
Members == 1..Len(population)

C2_IncumbentNotAliased ==
    incumbent # 0 => \A i \in Members : population[i] # incumbent

C4_RetryBudget ==
    rejected >= 100 * own_settings.mh_pop_size => pc = "PopulationInitFailed"

\* C5: when Population.__init__ completes with mh_dupelim set, no two
\* different slots hold solutions that are is_equal.
C5_NoDuplicates ==
    (pc = "populated" /\ own_settings.mh_dupelim)
        => \A i, j \in Members :
              i # j => ~is_equal(heap[population[i]], heap[population[j]])

C5_Witness ==
    /\ pc = "populated"
    /\ own_settings.mh_dupelim
    /\ Len(population) = own_settings.mh_pop_size
    /\ Len(population) >= 3

\* C6: when Population.__init__ completes and the last construction call did
\* not signal terminate, the population holds exactly mh_pop_size members;
\* its slots are pairwise distinct objects; and no step of run() changes the
\* number of slots or their distinctness.
C6_PopulationSize ==
    [][/\ (pc = "Population" /\ pc' = "populated" /\ ~res_terminate')
            => Len(population') = own_settings.mh_pop_size
       /\ pc' = "populated"
            => Cardinality(Range(population')) = Len(population')
       /\ pc \in {"run", "perform"}
            => /\ Len(population') = Len(population)
               /\ Cardinality(Range(population')) = Len(population')]_vars

C6_Witness ==
    /\ pc = "run"
    /\ iteration > 0
    /\ Len(population) = own_settings.mh_pop_size
    /\ Len(population) >= 2

\* C7: as soon as a construction call sets res.terminate, Population.__init__
\* makes no further pass: it has returned.
C7_TerminateStopsInit ==
    res_terminate => pc # "Population"

\* C8: every iteration of run() gets its parent from the tournament
\* selection; no iteration fails before the methods are dispatched.
C8_SelectionNeverFails ==
    pc # "ValueError"

\* C9: for a population of at least two members, the index selection()
\* returns lies in 1..size-1; it is never index 0.
C9_SelectionNeverIndex0 ==
    (sel_pc = "returned" /\ Len(population) >= 2)
        => sel_best \in 1..(Len(population) - 1)

C9_Witness ==
    /\ sel_pc = "returned"
    /\ Len(population) >= 3
    /\ own_settings.mh_tournament_size >= 2
    /\ Cardinality(sel_sampled) >= 2

C11_BestWorstLowestIndex ==
    Len(population) >= 1 =>
        LET P == Values(population, heap)
            Idx == 0..(Len(P) - 1)
            NoneBetter(i) == \A m \in Idx : ~is_better(P[m + 1], P[i + 1])
            NoneWorse(j) == \A m \in Idx : ~is_worse(P[m + 1], P[j + 1])
        IN  /\ best(P) \in Idx
            /\ NoneBetter(best(P))
            /\ \A i \in Idx : i < best(P) => ~NoneBetter(i)
            /\ worst(P) \in Idx
            /\ NoneWorse(worst(P))
            /\ \A j \in Idx : j < worst(P) => ~NoneWorse(j)

\* A population whose two best members tie behind a worse first member,
\* after __init__ has bound the incumbent to best().
C11_Witness ==
    /\ pc = "run"
    /\ Len(population) = 3
    /\ LET P == Values(population, heap)
       IN  /\ best(P) = 1
           /\ worst(P) = 0
           /\ obj(P[2]) = obj(P[3])
           /\ incumbent = population[2]

C19_RoundRobinOnPrototype ==
    [][(pc = "Population" /\ pc' = "Population")
        => /\ meths_cycle' = (meths_cycle + 1) % NumMeths
           /\ sol' = sol]_vars

\* run() is sequential code: whenever one of its steps can be taken, it is
\* taken.
SpecRun ==
    /\ Spec
    /\ WF_vars(run_select)
    /\ WF_vars(perform_method)
    /\ WF_vars(run_replace)

int32_max == 2147483647

\* The options of the Namespace, in the order they are written to the file.
Options == <<"seed", "mh_titer", "mh_dupelim">>

\* Seeds given on the command line or in an adopted Namespace; 0 asks for a
\* random initialisation.
ConfiguredSeeds == {0, 42, int32_max}

\* The Namespaces parse_settings can produce from its arguments, and
\* set_settings can be given.
Namespaces ==
    [seed : ConfiguredSeeds, mh_titer : {0 - 1, 100}, mh_dupelim : BOOLEAN]

\* np.random.randint(high): a draw from the half-open range [0, high), here
\* from its two ends and the values next to them.
randint(high) == {r \in {0, 1, high - 2, high - 1, high} : 0 <= r /\ r < high}

\* pickle.dump: the Namespace is written as the list of its (name, value)
\* pairs.
pickle_dump(ns) == [i \in 1..Len(Options) |-> <<Options[i], ns[Options[i]]>>]

\* pickle.load: the Namespace is rebuilt from the pairs read.
pickle_load(f) ==
    [name \in {f[i][1] : i \in DOMAIN f} |->
        LET i == CHOOSE k \in DOMAIN f : f[k][1] = name IN f[i][2]]

\* seed_random_generators(), lines 88-94, on the Namespace ns: a seed of 0 is
\* replaced by a draw from randint(int32.max), and both generators are seeded
\* with the stored seed.
seed_random_generators(ns) ==
    \E r \in randint(int32_max) :
        LET seed == IF ns.seed = 0 THEN r ELSE ns.seed
        IN  /\ settings' = [ns EXCEPT !.seed = seed]
            /\ np_seed' = seed
            /\ py_seed' = seed

\* parse_settings(): the arguments are parsed into the Namespace and the
\* generators are seeded.
parse_settings ==
    /\ set_pc = "start"
    /\ \E ns \in Namespaces : seed_random_generators(ns)
    /\ set_pc' = "parse_settings"
    /\ UNCHANGED <<file, at_save>>
    /\ UNCHANGED <<gavars, selvars, tspvars>>

\* set_settings(s): the given Namespace is adopted and the generators are
\* seeded.
set_settings ==
    /\ set_pc # "start"
    /\ \E ns \in Namespaces : seed_random_generators(ns)
    /\ set_pc' = "set_settings"
    /\ UNCHANGED <<file, at_save>>
    /\ UNCHANGED <<gavars, selvars, tspvars>>

\* save_settings(filename).
save_settings ==
    /\ set_pc # "start"
    /\ file' = pickle_dump(settings)
    /\ at_save' = settings
    /\ set_pc' = "save_settings"
    /\ UNCHANGED <<settings, np_seed, py_seed>>
    /\ UNCHANGED <<gavars, selvars, tspvars>>

\* load_settings(filename): the Namespace read replaces the options and the
\* generators are seeded.
load_settings ==
    /\ set_pc # "start"
    /\ file # <<>>
    /\ seed_random_generators(pickle_load(file))
    /\ set_pc' = "load_settings"
    /\ UNCHANGED <<file, at_save>>
    /\ UNCHANGED <<gavars, selvars, tspvars>>

\* The state before parse_settings is called; the genetic algorithm is not
\* running.
InitSettings ==
    /\ settings = <<>>
    /\ np_seed = "unseeded"
    /\ py_seed = "unseeded"
    /\ file = <<>>
    /\ at_save = <<>>
    /\ set_pc = "start"
    /\ own_settings \in [mh_pop_size : {1}, mh_tournament_size : {1},
                          mh_dupelim : {FALSE}, mh_titer : {0},
                          mh_ssga_cross_prob : {0}, mh_ssga_loc_prob : {50}]
    /\ meth_ls = FALSE
    /\ pc = "unused"
    /\ population = <<>>
    /\ heap = [o \in {} |-> 0]
    /\ sol = 0
    /\ meths_cycle = 0
    /\ res_terminate = FALSE
    /\ rejected = 0
    /\ incumbent = 0
    /\ iteration = 0
    /\ p1 = 0
    /\ methods = <<>>
    /\ sel_pc = "idle"
    /\ sel_best = 0
    /\ sel_i = 0
    /\ sel_sampled = {}
    /\ TSPUnused

NextSettings ==
    \/ parse_settings
    \/ set_settings
    \/ save_settings
    \/ load_settings

SpecSettings == InitSettings /\ [][NextSettings]_vars

\* C16: once the generators are seeded, the stored seed is a nonzero 31-bit
\* integer and both generators were seeded with exactly the stored value.
C16_StoredSeedNonzero ==
    set_pc \in {"parse_settings", "set_settings", "load_settings"}
        => /\ settings.seed \in 1..int32_max
           /\ np_seed = settings.seed
           /\ py_seed = settings.seed

\* C17: after save_settings followed by load_settings, every option, the
\* seed included, has the value it had when it was saved.
C17_SaveLoadRoundTrip ==
    set_pc = "load_settings"
        => \A i \in 1..Len(Options) : settings[Options[i]] = at_save[Options[i]]

\* ------------------------------------------------------------ demos/tsp.py
\* The values of shaking's parameter par.
ShakingPars == {0, 1, 2}

\* The city coordinates (x, y) of the instance files.
Coordinates ==
    { <<<<0, 0>>, <<2, 1>>, <<5, 0>>, <<1, 3>>>>,
      <<<<0, 0>>, <<1, 1>>, <<2, 0>>>> }

\* int(math.sqrt(k))
int_sqrt(k) == CHOOSE r \in 0..k : r * r <= k /\ k < (r + 1) * (r + 1)

\* TSPInstance.__init__, lines 53-64: the truncated Euclidean distances of
\* all city pairs; cities are numbered from 0.
TSPInstance(coordinates) ==
    LET n == Len(coordinates)
        dist(i, j) ==
            LET dx == coordinates[j + 1][1] - coordinates[i + 1][1]
                dy == coordinates[j + 1][2] - coordinates[i + 1][2]
            IN  int_sqrt(dx * dx + dy * dy)
    IN  [coordinates |-> coordinates,
         n |-> n,
         distances |-> [i \in 0..(n - 1) |-> [j \in 0..(n - 1) |->
                          IF i = j THEN 0 ELSE dist(i, j)]]]

\* The permutations of 0, ..., n-1; position p of a tour x is x[p + 1].
Tours(n) ==
    {x \in [1..n -> 0..(n - 1)] :
        \A i, j \in 1..n : i # j => x[i] # x[j]}

\* The tours of the instances.
InstanceTours == [c \in Coordinates |-> Tours(Len(c))]

\* calc_objective, lines 95-97: the loop over i from position i on.
RECURSIVE calc_objective_loop(_, _, _)
calc_objective_loop(I, x, i) ==
    IF i >= I.n - 1 THEN 0
    ELSE I.distances[x[i + 1]][x[i + 2]] + calc_objective_loop(I, x, i + 1)

\* calc_objective: the length of the round trip.
calc_objective(I, x) ==
    calc_objective_loop(I, x, 0) + I.distances[x[I.n]][x[1]]

\* The delta evaluation without the case of the whole tour being reversed.
two_opt_move_delta_eval_no_whole_case(I, x, m1, m2) ==
    LET n == Len(x)
        x_p1 == x[m1 + 1]
        x_p2 == x[m2 + 1]
        x_prev == x[((m1 - 1) % n) + 1]
        x_next == x[((m2 + 1) % n) + 1]
        d == I.distances
    IN  d[x_prev][x_p2] + d[x_p1][x_next] - d[x_prev][x_p1] - d[x_p2][x_next]

\* two_opt_move_delta_eval(p1, p2), lines 136-148; the positions p1 and p2
\* are m1 and m2 here.
two_opt_move_delta_eval(I, x, m1, m2) ==
    LET n == Len(x)
    IN  IF m1 = 0 /\ m2 = n - 1 THEN 0
        ELSE LET prev == (m1 - 1) % n
                 nxt == (m2 + 1) % n
                 x_p1 == x[m1 + 1]
                 x_p2 == x[m2 + 1]
                 x_prev == x[prev + 1]
                 x_next == x[nxt + 1]
                 d == I.distances
             IN  d[x_prev][x_p2] + d[x_p1][x_next]
                 - d[x_prev][x_p1] - d[x_p2][x_next]

\* apply_2_opt_move(move), line 170: the slice x[p1:p2+1] reversed in place.
apply_2_opt_move(x, move) ==
    LET m1 == move[1]
        m2 == move[2]
    IN  [p \in 1..Len(x) |->
            IF m1 + 1 <= p /\ p <= m2 + 1 THEN x[m1 + m2 + 2 - p] ELSE x[p]]

\* propose_random_2_opt_move, lines 161-163: the moves that can be drawn.
two_opt_moves(x) ==
    {<<m1, m2>> \in (0..(Len(x) - 2)) \X (0..(Len(x) - 1)) : m1 + 1 <= m2}

\* shaking, lines 119-122: the tours `par` swaps of two drawn positions can
\* leave (the two positions may coincide).
RECURSIVE shaking_loop(_, _)
shaking_loop(x, par) ==
    IF par <= 0 THEN {x}
    ELSE UNION {shaking_loop([x EXCEPT ![a + 1] = x[b + 1],
                                       ![b + 1] = x[a + 1]], par - 1) :
                    <<a, b>> \in (0..(Len(x) - 1)) \X (0..(Len(x) - 1))}

\* Solution.invalidate
invalidate(s) == [s EXCEPT !.obj_val_valid = FALSE]

\* TSPSolution(inst): the identity permutation, nothing cached.
TSPSolution(I) ==
    [x |-> [p \in 1..I.n |-> p - 1], obj_val |-> 0 - 1, obj_val_valid |-> FALSE]

\* The Result a method call starts with.
Result == [changed |-> FALSE, terminate |-> FALSE]

\* PermutationSolution.two_opt_neighborhood_search: the tours the search can
\* leave, a 2-opt neighbour that is strictly shorter, or x itself when no
\* neighbour is.
two_opt_neighborhood_search(I, x) ==
    LET better == {y \in {apply_2_opt_move(x, m) : m \in two_opt_moves(x)} :
                      calc_objective(I, y) < calc_objective(I, x)}
    IN  IF better = {} THEN {x} ELSE better

\* The variables outside the TSPSolution at hand.
tsp_frame == <<gavars, selvars, setvars, inst>>

\* Solution.obj(): the cached objective, computed first when it is not valid.
TSPSolution_obj ==
    /\ proposed = <<>>
    /\ self' = IF self.obj_val_valid THEN self
               ELSE [self EXCEPT !.obj_val = calc_objective(inst, self.x),
                                 !.obj_val_valid = TRUE]
    /\ UNCHANGED <<other, result, proposed, tsp_frame>>

\* construct(par, result) called as a method: initialize(par) shuffles the
\* tour and invalidates; the Result is not touched.
construct ==
    /\ proposed = <<>>
    /\ \E x \in InstanceTours[inst.coordinates] :
         self' = invalidate([self EXCEPT !.x = x])
    /\ result' = Result
    /\ UNCHANGED <<other, proposed, tsp_frame>>

\* shaking(par, result) called as a method.
shaking ==
    /\ proposed = <<>>
    /\ \E par \in ShakingPars :
         \E x \in shaking_loop(self.x, par) :
            self' = invalidate([self EXCEPT !.x = x])
    /\ result' = [Result EXCEPT !.changed = TRUE]
    /\ UNCHANGED <<other, proposed, tsp_frame>>

\* local_improve(par, result) called as a method: the outcome of the search
\* is dropped and the Result is not touched.
local_improve ==
    /\ proposed = <<>>
    /\ \E x \in two_opt_neighborhood_search(inst, self.x) :
         self' = IF x = self.x THEN self
                 ELSE invalidate([self EXCEPT !.x = x])
    /\ result' = Result
    /\ UNCHANGED <<other, proposed, tsp_frame>>

\* meth_cx of run(), called as the method "cx" with p1 = self and p2 = other:
\* crossover(p1, p2) leaves the child in p1, here a tour of one of the
\* parents; what it returns is dropped and the Result is not touched.
meth_cx ==
    /\ proposed = <<>>
    /\ \E x \in {self.x, other.x} :
         self' = IF x = self.x THEN self
                 ELSE invalidate([self EXCEPT !.x = x])
    /\ result' = Result
    /\ UNCHANGED <<other, proposed, tsp_frame>>

\* propose_neighborhood_move(): a drawn move and its delta evaluation.  The
\* caller applies the move proposed, or asks for another one, before it does
\* anything else with the solution.
propose_neighborhood_move ==
    /\ \E move \in two_opt_moves(self.x) :
         proposed' = <<move, two_opt_move_delta_eval(inst, self.x,
                                                     move[1], move[2])>>
    /\ UNCHANGED <<self, other, result, tsp_frame>>

\* apply_neighborhood_move(move) with the move proposed.
apply_neighborhood_move ==
    /\ proposed # <<>>
    /\ self' = [self EXCEPT !.x = apply_2_opt_move(self.x, proposed[1])]
    /\ proposed' = <<>>
    /\ UNCHANGED <<other, result, tsp_frame>>

\* copy(): a new TSPSolution that is made a copy of self.
copy ==
    /\ proposed = <<>>
    /\ other' = self
    /\ UNCHANGED <<self, result, proposed, tsp_frame>>

\* copy_from(other): tour, cached objective and validity flag are taken.
copy_from ==
    /\ proposed = <<>>
    /\ self' = other
    /\ UNCHANGED <<other, result, proposed, tsp_frame>>

\* Two solutions of one instance just made; the genetic algorithm and the
\* settings take no part.
InitTSP ==
    /\ inst \in {TSPInstance(c) : c \in Coordinates}
    /\ self = TSPSolution(inst)
    /\ other = TSPSolution(inst)
    /\ result = Result
    /\ proposed = <<>>
    /\ SettingsUnused
    /\ own_settings \in [mh_pop_size : {1}, mh_tournament_size : {1},
                          mh_dupelim : {FALSE}, mh_titer : {0},
                          mh_ssga_cross_prob : {0}, mh_ssga_loc_prob : {50}]
    /\ meth_ls = FALSE
    /\ pc = "unused"
    /\ population = <<>>
    /\ heap = [o \in {} |-> 0]
    /\ sol = 0
    /\ meths_cycle = 0
    /\ res_terminate = FALSE
    /\ rejected = 0
    /\ incumbent = 0
    /\ iteration = 0
    /\ p1 = 0
    /\ methods = <<>>
    /\ sel_pc = "idle"
    /\ sel_best = 0
    /\ sel_i = 0
    /\ sel_sampled = {}

NextTSP ==
    \/ TSPSolution_obj
    \/ construct
    \/ shaking
    \/ local_improve
    \/ meth_cx
    \/ propose_neighborhood_move
    \/ apply_neighborhood_move
    \/ copy
    \/ copy_from

SpecTSP == InitTSP /\ [][NextTSP]_vars

\* C14: whenever the validity flag of a solution is true, its cached
\* objective is calc_objective() of its current tour, and every operation
\* that changes the tour in place (copy_from, which takes the flag together
\* with the tour and the cache of its source, aside) leaves the flag false.
C14_CacheCoherent ==
    [][/\ self'.obj_val_valid
            => self'.obj_val = calc_objective(inst', self'.x)
       /\ other'.obj_val_valid
            => other'.obj_val = calc_objective(inst', other'.x)
       /\ (self'.x # self.x /\ ~copy_from)
            => ~self'.obj_val_valid]_vars

\* C15: every method the genetic algorithm dispatches sets result.changed
\* to true exactly when it altered the solution passed to it, and a
\* construction method always sets it to true.
C15_ChangedIffAltered ==
    [][/\ (construct \/ meth_cx \/ shaking \/ local_improve)
            => (result'.changed <=> (self'.x # self.x))
       /\ construct => result'.changed]_vars

\* C21: for every tour and every pair of positions p1 < p2, the delta that
\* two_opt_move_delta_eval returns is calc_objective() of the tour after
\* apply_2_opt_move((p1, p2)) minus calc_objective() of the tour before it,
\* 0 when the whole tour is reversed; the evaluation leaves the tour as it
\* is, and applying the move proposed changes the length by the delta.  A
\* step into a state with a proposal is a proposal; a step that uses the
\* proposal up is its application.
C21_DeltaEvalExact ==
    [][/\ proposed' # <<>>
            => LET move == proposed'[1]
                   delta_f == proposed'[2]
               IN  /\ self' = self
                   /\ delta_f = calc_objective(inst, apply_2_opt_move(self.x, move))
                                - calc_objective(inst, self.x)
                   /\ (move[1] = 0 /\ move[2] = inst.n - 1) => delta_f = 0
       /\ (proposed # <<>> /\ proposed' = <<>>)
            => calc_objective(inst, self'.x) - calc_objective(inst, self.x)
               = proposed[2]]_vars

\* A move over the whole tour of four cities has been evaluated on a tour
\* other than the initial one, and a move that lengthens the tour as well.
C21_Witness ==
    /\ inst.n = 4
    /\ proposed # <<>>
    /\ self.x # TSPSolution(inst).x
    /\ \/ proposed[1] = <<0, 3>>
       \/ proposed[2] > 0

====
